---------------------------- MODULE Spec2Model ----------------------------
(***************************************************************************)
(* A model of SunriseAlarmClock.ino: the control loop (loop), the button   *)
(* handlers bound through OneButton, the wrap-around field editor          *)
(* (handleAlarmTime), the wake-up window predicate (isAlarmOn) and the     *)
(* clock of TimeLib (hour(), minute(), second(), setTime), and the two     *)
(* interrupt handlers of the dimmer (zeroCrossInt, turnOnTriac) with the   *)
(* output pin AC_LOAD and Timer1.                                          *)
(*                                                                         *)
(* One pass of loop() is one action.  Its inputs are what the pass reads   *)
(* from outside: the button event OneButton::tick() reports, the direction *)
(* RotaryEncoder::getDirection() returns, and whether the 250 ms render    *)
(* test succeeds.  The render test reads the local lastMillis, which is    *)
(* not static and is read before it is written: its outcome is a free      *)
(* choice in every pass.  The drawing routines and persistRotation,        *)
(* which only feeds the drawing, are not part of the state.                *)
(***************************************************************************)
EXTENDS Integers, Sequences, FiniteSets, TLC

\* ------------------------------------------------------------ constants
ENC_CW == 1
ENC_CCW == -1
HOUR == 1
MINUTE == 2
DURATION == 3
MaxHour == 23
MaxMinute == 59
MaxDuration == 30
DimCeiling == 120
DimFloor == 5
AlarmSteps == 255
AlarmFullOn == 255
IdleTimeout == 15
\* byte / uint8_t and the 16 bit unsigned int of the AVR target
Byte == 256
Word == 65536

uiStates == {"mainView", "setAlarmView", "setTimeView"}
ButtonEvents == {"none", "click", "doubleClick", "longPressStop"}
Directions == {ENC_CCW, 0, ENC_CW}

\* ---------------------------------------------------------------- state
VARIABLES
    alarmEnabled, lightOn, syncTimer1ToMains,
    uiState,
    timeHour, timeMinute, alarmHour, alarmMinute, alarmDuration, lightIntensity,
    alarmIntensity, secondsPerStep, varToEdit,
    time,              \* the clock of TimeLib: [h, m, s]
    encSpeed, lastSecond,
    clickFunc, doubleClickFunc, longPressStopFunc,   \* OneButton's bound handlers
    acLoad,            \* the level of the output pin AC_LOAD
    timer1Running,     \* Timer1 has been started
    zcAt,              \* where zeroCrossInt is: "idle", or "fired" (lines 150-152)
    \* history of the run, written by the actions and read only by the properties
    lastOp,            \* the action taken last
    lastPass,          \* what the last pass of loop() read and decided
    pre,               \* the program state before the last action
    sinceInput,        \* seconds since the last rotation or button event
    sinceButton,       \* seconds since the last button event
    rendered,          \* a render tick has happened since the clock last advanced
    streak,            \* the rotations applied since Init, for the counter claims
    nTick, nRot, nBtn  \* how many seconds, rotations and button events so far

progVars == <<alarmEnabled, lightOn, syncTimer1ToMains, uiState, timeHour, timeMinute,
              alarmHour, alarmMinute, alarmDuration, lightIntensity, alarmIntensity,
              secondsPerStep, varToEdit, time, encSpeed, lastSecond,
              clickFunc, doubleClickFunc, longPressStopFunc,
              acLoad, timer1Running, zcAt>>
histVars == <<lastOp, lastPass, pre, sinceInput, sinceButton, rendered, streak,
              nTick, nRot, nBtn>>
vars == <<progVars, histVars>>

\* The program state as one value, so that the statements of a handler compose.
St ==
    [alarmEnabled |-> alarmEnabled, lightOn |-> lightOn,
     syncTimer1ToMains |-> syncTimer1ToMains, uiState |-> uiState,
     timeHour |-> timeHour, timeMinute |-> timeMinute,
     alarmHour |-> alarmHour, alarmMinute |-> alarmMinute,
     alarmDuration |-> alarmDuration, lightIntensity |-> lightIntensity,
     alarmIntensity |-> alarmIntensity, secondsPerStep |-> secondsPerStep,
     varToEdit |-> varToEdit, time |-> time, encSpeed |-> encSpeed,
     lastSecond |-> lastSecond, clickFunc |-> clickFunc,
     doubleClickFunc |-> doubleClickFunc, longPressStopFunc |-> longPressStopFunc,
     acLoad |-> acLoad, timer1Running |-> timer1Running, zcAt |-> zcAt]

Commit(s) ==
    /\ alarmEnabled' = s.alarmEnabled
    /\ lightOn' = s.lightOn
    /\ syncTimer1ToMains' = s.syncTimer1ToMains
    /\ uiState' = s.uiState
    /\ timeHour' = s.timeHour
    /\ timeMinute' = s.timeMinute
    /\ alarmHour' = s.alarmHour
    /\ alarmMinute' = s.alarmMinute
    /\ alarmDuration' = s.alarmDuration
    /\ lightIntensity' = s.lightIntensity
    /\ alarmIntensity' = s.alarmIntensity
    /\ secondsPerStep' = s.secondsPerStep
    /\ varToEdit' = s.varToEdit
    /\ time' = s.time
    /\ encSpeed' = s.encSpeed
    /\ lastSecond' = s.lastSecond
    /\ clickFunc' = s.clickFunc
    /\ doubleClickFunc' = s.doubleClickFunc
    /\ longPressStopFunc' = s.longPressStopFunc
    /\ acLoad' = s.acLoad
    /\ timer1Running' = s.timer1Running
    /\ zcAt' = s.zcAt

\* ---------------------------------------------------------------- clock
hour(s) == s.time.h
minute(s) == s.time.m
second(s) == s.time.s

\* setTime(hr, min, sec, day, month, year): the date is not modelled.
setTime(s, hr, min, sec) == [s EXCEPT !.time = [h |-> hr, m |-> min, s |-> sec]]

\* One second of TimeLib's clock.
NextSecond(t) ==
    IF t.s < 59 THEN [t EXCEPT !.s = t.s + 1]
    ELSE IF t.m < 59 THEN [t EXCEPT !.s = 0, !.m = t.m + 1]
    ELSE [h |-> (t.h + 1) % 24, m |-> 0, s |-> 0]

\* ------------------------------------------------------ secondsPerStep
StepSeconds(duration) == ((duration * 60) \div AlarmSteps) % Byte

\* ------------------------------------------------------ button handlers
toggleLightOn(s) ==
    [s EXCEPT !.lightOn = ~s.lightOn, !.syncTimer1ToMains = TRUE]

\* toggleAlarmEnabled that also switches the lamp off when it disables.
toggleAlarmEnabled_DropsLight(s) ==
    [s EXCEPT !.alarmEnabled = ~s.alarmEnabled,
              !.lightOn = IF s.alarmEnabled THEN FALSE ELSE s.lightOn]

toggleAlarmEnabled(s) ==
    [s EXCEPT !.alarmEnabled = ~s.alarmEnabled]

cycleSetAlarm(s) ==
    [s EXCEPT !.varToEdit = IF s.varToEdit = DURATION THEN HOUR
                            ELSE (s.varToEdit + 1) % Byte,
              !.lastSecond = second(s)]

cycleSetTime(s) ==
    [s EXCEPT !.varToEdit = IF s.varToEdit = MINUTE THEN HOUR
                            ELSE (s.varToEdit + 1) % Byte,
              !.lastSecond = second(s)]

switchToSetTimeView(s) ==
    [s EXCEPT !.timeHour = hour(s),
              !.timeMinute = minute(s),
              !.uiState = "setTimeView",
              !.clickFunc = "cycleSetTime",
              !.doubleClickFunc = "switchToSetAlarmView",
              !.longPressStopFunc = "switchToMainView",
              !.lastSecond = second(s)]

switchToSetAlarmView(s) ==
    [s EXCEPT !.uiState = "setAlarmView",
              !.clickFunc = "cycleSetAlarm",
              !.doubleClickFunc = "switchToSetTimeView",
              !.longPressStopFunc = "switchToMainView",
              !.lastSecond = second(s)]

\* switchToMainView without attachDoubleClick(toggleAlarmEnabled).
switchToMainView_KeepsDoubleClick(s) ==
    LET c == IF s.uiState = "setTimeView"
             THEN setTime(s, s.timeHour, s.timeMinute, 0)
             ELSE s
    IN [c EXCEPT !.uiState = "mainView",
                 !.varToEdit = HOUR,
                 !.clickFunc = "toggleLightOn",
                 !.longPressStopFunc = "switchToSetAlarmView"]

switchToMainView(s) ==
    LET c == IF s.uiState = "setTimeView"
             THEN setTime(s, s.timeHour, s.timeMinute, 0)
             ELSE s
    IN [c EXCEPT !.uiState = "mainView",
                 !.varToEdit = HOUR,
                 !.clickFunc = "toggleLightOn",
                 !.doubleClickFunc = "toggleAlarmEnabled",
                 !.longPressStopFunc = "switchToSetAlarmView"]

\* A call through one of OneButton's function pointers.
Call(f, s) ==
    CASE f = "toggleLightOn" -> toggleLightOn(s)
      [] f = "toggleAlarmEnabled" -> toggleAlarmEnabled(s)
      [] f = "cycleSetAlarm" -> cycleSetAlarm(s)
      [] f = "cycleSetTime" -> cycleSetTime(s)
      [] f = "switchToSetTimeView" -> switchToSetTimeView(s)
      [] f = "switchToSetAlarmView" -> switchToSetAlarmView(s)
      [] f = "switchToMainView" -> switchToMainView(s)

\* encoderBtn.tick(): at most one event per call, sent to the bound handler.
ButtonTick(s, btn) ==
    CASE btn = "click" -> Call(s.clickFunc, s)
      [] btn = "doubleClick" -> Call(s.doubleClickFunc, s)
      [] btn = "longPressStop" -> Call(s.longPressStopFunc, s)
      [] OTHER -> s

\* ------------------------------------------------------------ the triac
\* lines 147-152: zeroCrossInt with syncTimer1ToMains set, up to the pulse.
zeroCrossFire(s) ==
    [s EXCEPT !.syncTimer1ToMains = FALSE,
              !.acLoad = "HIGH",
              !.timer1Running = TRUE,
              !.zcAt = "fired"]

\* line 155: the end of zeroCrossInt.
zeroCrossEnd(s) == [s EXCEPT !.acLoad = "LOW", !.zcAt = "idle"]

\* lines 161-165: the Timer1 interrupt.
turnOnTriac(s) == IF s.lightOn THEN [s EXCEPT !.acLoad = "HIGH"] ELSE s

\* -------------------------------------------------------- field editing
\* handleAlarmTime with the wrap test one too late (var == maxNumber + 1).
handleAlarmTime_LateWrap(encDir, var, maxNumber) ==
    IF encDir = ENC_CW
    THEN (IF var = maxNumber + 1 THEN 0 ELSE (var + 1) % Byte)
    ELSE IF encDir = ENC_CCW
    THEN (IF var = 0 THEN maxNumber ELSE var - 1)
    ELSE var

handleAlarmTime(encDir, var, maxNumber) ==
    IF encDir = ENC_CW
    THEN (IF var = maxNumber THEN 0 ELSE (var + 1) % Byte)
    ELSE IF encDir = ENC_CCW
    THEN (IF var = 0 THEN maxNumber ELSE var - 1)
    ELSE var

\* ------------------------------------------------------- wake-up window
\* isAlarmOn with the start hour not wrapped from 0 to 23.
isAlarmOnAt_NoMidnight(h, m, aHour, aMinute, aDuration) ==
    IF aMinute >= aDuration
    THEN h = aHour /\ m >= aMinute - aDuration /\ m < aMinute
    ELSE LET startHour == aHour - 1
             startMinute == (60 - (aDuration - aMinute)) % Byte
         IN (h = startHour /\ m >= startMinute) \/ (h = aHour /\ m < aMinute)

isAlarmOnAt(h, m, aHour, aMinute, aDuration) ==
    IF aMinute >= aDuration
    THEN h = aHour /\ m >= aMinute - aDuration /\ m < aMinute
    ELSE LET startHour == IF aHour = 0 THEN 23 ELSE aHour - 1
             startMinute == (60 - (aDuration - aMinute)) % Byte
         IN (h = startHour /\ m >= startMinute) \/ (h = aHour /\ m < aMinute)

isAlarmOn(s) ==
    isAlarmOnAt(hour(s), minute(s), s.alarmHour, s.alarmMinute, s.alarmDuration)

\* ------------------------------------------------------- parts of loop()
\* The brightness branch without its lightOn test.
DimLight_NoLightTest(s, encDir) ==
    IF encDir # 0 /\ s.uiState = "mainView"
    THEN LET li == s.lightIntensity
             sp == s.encSpeed
             new == IF encDir = ENC_CW
                    THEN (IF li > (DimCeiling - sp) % Word
                          THEN DimCeiling ELSE (li + sp) % Word)
                    ELSE IF encDir = ENC_CCW
                    THEN (IF li < sp THEN DimFloor ELSE (li - sp) % Word)
                    ELSE li
         IN [s EXCEPT !.lightIntensity = new % Byte, !.syncTimer1ToMains = TRUE]
    ELSE s

\* The brightness branch without the test against the ceiling of 120.
DimLight_NoCeiling(s, encDir) ==
    IF s.lightOn /\ encDir # 0 /\ s.uiState = "mainView"
    THEN LET li == s.lightIntensity
             sp == s.encSpeed
             new == IF encDir = ENC_CW
                    THEN (li + sp) % Word
                    ELSE IF encDir = ENC_CCW
                    THEN (IF li < sp THEN DimFloor ELSE (li - sp) % Word)
                    ELSE li
         IN [s EXCEPT !.lightIntensity = new % Byte, !.syncTimer1ToMains = TRUE]
    ELSE s

\* lines 285-297: brightness of the lamp in the main view.  encSpeed is a
\* uint16_t, so 120 - encSpeed and lightIntensity + encSpeed are computed in
\* 16 bit unsigned arithmetic and the result is stored into a uint8_t.
DimLight(s, encDir) ==
    IF s.lightOn /\ encDir # 0 /\ s.uiState = "mainView"
    THEN LET li == s.lightIntensity
             sp == s.encSpeed
             new == IF encDir = ENC_CW
                    THEN (IF li > (DimCeiling - sp) % Word
                          THEN DimCeiling ELSE (li + sp) % Word)
                    ELSE IF encDir = ENC_CCW
                    THEN (IF li < sp THEN DimFloor ELSE (li - sp) % Word)
                    ELSE li
         IN [s EXCEPT !.lightIntensity = new % Byte, !.syncTimer1ToMains = TRUE]
    ELSE s

\* The alarm fields edited in either edit view (uiState != mainView).
EditAlarm_AnyEditView(s, encDir) ==
    IF s.uiState # "mainView"
    THEN CASE s.varToEdit = HOUR ->
                [s EXCEPT !.alarmHour = handleAlarmTime(encDir, s.alarmHour, MaxHour)]
           [] s.varToEdit = MINUTE ->
                [s EXCEPT !.alarmMinute = handleAlarmTime(encDir, s.alarmMinute, MaxMinute)]
           [] s.varToEdit = DURATION ->
                LET d == handleAlarmTime(encDir, s.alarmDuration, MaxDuration)
                IN [s EXCEPT !.alarmDuration = d, !.secondsPerStep = StepSeconds(d)]
           [] OTHER -> s
    ELSE s

\* lines 299-312: the alarm fields.
EditAlarm(s, encDir) ==
    IF s.uiState = "setAlarmView"
    THEN CASE s.varToEdit = HOUR ->
                [s EXCEPT !.alarmHour = handleAlarmTime(encDir, s.alarmHour, MaxHour)]
           [] s.varToEdit = MINUTE ->
                [s EXCEPT !.alarmMinute = handleAlarmTime(encDir, s.alarmMinute, MaxMinute)]
           [] s.varToEdit = DURATION ->
                LET d == handleAlarmTime(encDir, s.alarmDuration, MaxDuration)
                IN [s EXCEPT !.alarmDuration = d, !.secondsPerStep = StepSeconds(d)]
           [] OTHER -> s
    ELSE s

\* The clock fields moved by the direction without handleAlarmTime's wrap.
EditTime_Unwrapped(s, encDir) ==
    IF s.uiState = "setTimeView"
    THEN CASE s.varToEdit = HOUR ->
                [s EXCEPT !.timeHour = s.timeHour + encDir]
           [] s.varToEdit = MINUTE ->
                [s EXCEPT !.timeMinute = s.timeMinute + encDir]
           [] OTHER -> s
    ELSE s

\* lines 314-323: the clock fields.
EditTime(s, encDir) ==
    IF s.uiState = "setTimeView"
    THEN CASE s.varToEdit = HOUR ->
                [s EXCEPT !.timeHour = handleAlarmTime(encDir, s.timeHour, MaxHour)]
           [] s.varToEdit = MINUTE ->
                [s EXCEPT !.timeMinute = handleAlarmTime(encDir, s.timeMinute, MaxMinute)]
           [] OTHER -> s
    ELSE s

\* The alarm advancing alarmIntensity by two in every pass inside the window.
AlarmLogic_DoubleStep(s) ==
    IF s.alarmEnabled /\ isAlarmOn(s)
    THEN (IF s.alarmIntensity = AlarmSteps
          THEN [s EXCEPT !.lightOn = TRUE,
                         !.lightIntensity = AlarmFullOn,
                         !.alarmIntensity = 0]
          ELSE [s EXCEPT !.alarmIntensity = (s.alarmIntensity + 2) % Word])
    ELSE s

\* lines 325-332: the alarm.
AlarmLogic(s) ==
    IF s.alarmEnabled /\ isAlarmOn(s)
    THEN (IF s.alarmIntensity = AlarmSteps
          THEN [s EXCEPT !.lightOn = TRUE,
                         !.lightIntensity = AlarmFullOn,
                         !.alarmIntensity = 0]
          ELSE s)
    ELSE s

\* The idle test without its wrap over the minute (second() - lastSecond > 15).
IdleExpired_NoWrap(s) ==
    s.uiState # "mainView" /\ second(s) - s.lastSecond > IdleTimeout

\* line 336: the idle test of the render tick.
IdleExpired(s) ==
    s.uiState # "mainView" /\ ((second(s) - s.lastSecond) + 60) % 60 > IdleTimeout

\* lines 335-352: the render tick.
RenderTick(s, render) ==
    IF render
    THEN LET a == IF IdleExpired(s) THEN switchToMainView(s) ELSE s
         IN IF a.lightOn THEN [a EXCEPT !.syncTimer1ToMains = TRUE] ELSE a
    ELSE s

\* lines 265-353: one pass of loop().
LoopBody(s, btn, encDir, render) ==
    RenderTick(AlarmLogic(EditTime(EditAlarm(DimLight(ButtonTick(s, btn), encDir),
                                             encDir), encDir)), render)

\* lines 265-323: the pass up to the evaluation of the alarm.
BeforeAlarm(s, btn, encDir) ==
    EditTime(EditAlarm(DimLight(ButtonTick(s, btn), encDir), encDir), encDir)


\* The field a rotation edits in the edit views (lines 299-323), and its
\* maxNumber; 0 where the rotation edits no wrap-around field.
Selected(s) ==
    CASE s.uiState = "setAlarmView" /\ s.varToEdit = HOUR -> s.alarmHour
      [] s.uiState = "setAlarmView" /\ s.varToEdit = MINUTE -> s.alarmMinute
      [] s.uiState = "setAlarmView" /\ s.varToEdit = DURATION -> s.alarmDuration
      [] s.uiState = "setTimeView" /\ s.varToEdit = HOUR -> s.timeHour
      [] s.uiState = "setTimeView" /\ s.varToEdit = MINUTE -> s.timeMinute
      [] OTHER -> 0

SelectedMax(s) ==
    CASE s.uiState = "setAlarmView" /\ s.varToEdit = HOUR -> MaxHour
      [] s.uiState = "setAlarmView" /\ s.varToEdit = MINUTE -> MaxMinute
      [] s.uiState = "setAlarmView" /\ s.varToEdit = DURATION -> MaxDuration
      [] s.uiState = "setTimeView" /\ s.varToEdit = HOUR -> MaxHour
      [] s.uiState = "setTimeView" /\ s.varToEdit = MINUTE -> MaxMinute
      [] OTHER -> 0

\* -------------------------------------------------------------- setup()
\* The globals' initialisers and setup(): TimeLib's clock starts at 0:00:00,
\* the uninitialised globals (lastSecond, encSpeed) are zero, the pin AC_LOAD
\* is low and Timer1 is stopped (lines 111-117).
Construction ==
    [alarmEnabled |-> TRUE, lightOn |-> FALSE, syncTimer1ToMains |-> FALSE,
     uiState |-> "mainView", timeHour |-> 0, timeMinute |-> 0,
     alarmHour |-> 6, alarmMinute |-> 30, alarmDuration |-> 15,
     lightIntensity |-> 128, alarmIntensity |-> 0,
     secondsPerStep |-> StepSeconds(15), varToEdit |-> HOUR,
     time |-> [h |-> 0, m |-> 0, s |-> 0], encSpeed |-> 0, lastSecond |-> 0,
     clickFunc |-> "toggleLightOn", doubleClickFunc |-> "toggleAlarmEnabled",
     longPressStopFunc |-> "switchToSetAlarmView",
     acLoad |-> "LOW", timer1Running |-> FALSE, zcAt |-> "idle"]

\* States the program reaches from Construction, used as starting points:
\* the alarm fields as rotations in setAlarmView leave them, the clock as a
\* committed edit in setTimeView and the passing of time leave it.
WithAlarm(s, h, m, d) ==
    [s EXCEPT !.alarmHour = h, !.alarmMinute = m, !.alarmDuration = d,
              !.secondsPerStep = StepSeconds(d)]

WithClock(s, h, m, sec) == setTime(s, h, m, sec)

NoPass == [btn |-> "none", dir |-> 0, alarmOn |-> FALSE, entry |-> FALSE,
           timedOut |-> FALSE]

InitWith(s, idle) ==
    /\ alarmEnabled = s.alarmEnabled
    /\ lightOn = s.lightOn
    /\ syncTimer1ToMains = s.syncTimer1ToMains
    /\ uiState = s.uiState
    /\ timeHour = s.timeHour
    /\ timeMinute = s.timeMinute
    /\ alarmHour = s.alarmHour
    /\ alarmMinute = s.alarmMinute
    /\ alarmDuration = s.alarmDuration
    /\ lightIntensity = s.lightIntensity
    /\ alarmIntensity = s.alarmIntensity
    /\ secondsPerStep = s.secondsPerStep
    /\ varToEdit = s.varToEdit
    /\ time = s.time
    /\ encSpeed = s.encSpeed
    /\ lastSecond = s.lastSecond
    /\ clickFunc = s.clickFunc
    /\ doubleClickFunc = s.doubleClickFunc
    /\ longPressStopFunc = s.longPressStopFunc
    /\ acLoad = s.acLoad
    /\ timer1Running = s.timer1Running
    /\ zcAt = s.zcAt
    /\ lastOp = "init"
    /\ lastPass = NoPass
    /\ pre = s
    /\ sinceInput = idle
    /\ sinceButton = idle
    /\ streak = [start |-> Selected(s), cw |-> 0, ccw |-> 0]
    /\ nTick = 0
    /\ nRot = 0
    /\ nBtn = 0

\* -------------------------------------------------------------- actions
\* One pass of loop() with the inputs it reads, and the history it leaves.
LoopStep(btn, encDir, render) ==
    \E b \in {BeforeAlarm(St, btn, encDir)} :
    \E a \in {AlarmLogic(b)} :
    \E n \in {LoopBody(St, btn, encDir, render)} :
       /\ Commit(n)
       /\ lastOp' = "loop"
       /\ lastPass' = [btn |-> btn, dir |-> encDir,
                       alarmOn |-> (b.alarmEnabled /\ isAlarmOn(b)),
                       entry |-> (lastOp = "enter"),
                       timedOut |-> (render /\ IdleExpired(a))]
       /\ pre' = St
       /\ sinceInput' = IF btn # "none" \/ encDir # 0 THEN 0 ELSE sinceInput
       /\ sinceButton' = IF btn # "none" THEN 0 ELSE sinceButton
       /\ nRot' = IF encDir # 0 THEN nRot + 1 ELSE nRot
       /\ nBtn' = IF btn # "none" THEN nBtn + 1 ELSE nBtn
       /\ UNCHANGED nTick

\* A second passes on TimeLib's clock.  lastOp records whether this second
\* took the clock into the wake-up window.
SecondStep ==
    /\ time' = NextSecond(time)
    /\ lastOp' = IF ~isAlarmOn(St) /\ isAlarmOn([St EXCEPT !.time = NextSecond(time)])
                 THEN "enter" ELSE "tick"
    /\ pre' = St
    /\ sinceInput' = sinceInput + 1
    /\ sinceButton' = sinceButton + 1
    /\ nTick' = nTick + 1
    /\ UNCHANGED <<alarmEnabled, lightOn, syncTimer1ToMains, uiState, timeHour,
                   timeMinute, alarmHour, alarmMinute, alarmDuration, lightIntensity,
                   alarmIntensity, secondsPerStep, varToEdit, encSpeed, lastSecond,
                   clickFunc, doubleClickFunc, longPressStopFunc,
                   acLoad, timer1Running, zcAt,
                   lastPass, nRot, nBtn>>

\* The edit views as the handlers leave them.
AlarmViewAt(v) ==
    LET a == switchToSetAlarmView(Construction)
    IN CASE v = HOUR -> a
         [] v = MINUTE -> cycleSetAlarm(a)
         [] v = DURATION -> cycleSetAlarm(cycleSetAlarm(a))

TimeViewAt(v) ==
    LET t == switchToSetTimeView(switchToSetAlarmView(Construction))
    IN CASE v = HOUR -> t
         [] v = MINUTE -> cycleSetTime(t)

\* ------------------------------------------- the program under user input
\* Bounds of the run: seconds of clock time, rotations, button events.
MaxTick == 2
MaxRot == 2
MaxBtn == 2

\* The speed encoderInterrupt measured last (encCount * 0.25).
WithSpeed(s, sp) == [s EXCEPT !.encSpeed = sp]

\* The clock advanced by n seconds with no input and no render tick.
RECURSIVE Later(_, _)
Later(s, n) == IF n = 0 THEN s ELSE Later([s EXCEPT !.time = NextSecond(s.time)], n - 1)

\* Starting points in the main view: <<alarm, clock, encSpeed>>.  The state
\* after setup(); one second before the default window opens; inside a window
\* that crosses midnight; the fields at their largest values, one second
\* before the alarm time; the fields at their smallest values.
MainScenes ==
    {<<<<6, 30, 15>>, <<0, 0, 0>>, 0>>,
     <<<<6, 30, 15>>, <<6, 14, 59>>, 8>>,
     <<<<0, 10, 15>>, <<23, 59, 58>>, 0>>,
     <<<<23, 59, 30>>, <<23, 58, 59>>, 100>>,
     <<<<0, 0, 0>>, <<0, 0, 0>>, 0>>}

MainStarts ==
    {WithSpeed(WithClock(WithAlarm(Construction, c[1][1], c[1][2], c[1][3]),
                         c[2][1], c[2][2], c[2][3]), c[3]) : c \in MainScenes}

\* Starting points in an edit view that was opened IdleTimeout seconds ago
\* and left alone since: the alarm view with DURATION selected, and the time
\* view opened shortly before midnight.
IdleStarts ==
    {Later(AlarmViewAt(DURATION), IdleTimeout),
     Later(switchToSetTimeView(switchToSetAlarmView(
               WithClock(WithAlarm(Construction, 23, 59, 30), 23, 59, 44))),
           IdleTimeout)}

Init ==
    /\ \/ \E s \in MainStarts : InitWith(s, 0)
       \/ \E s \in IdleStarts : InitWith(s, IdleTimeout)
    /\ rendered = TRUE

Pass ==
    \E btn \in ButtonEvents, encDir \in Directions, render \in BOOLEAN :
        /\ encDir # 0 => nRot < MaxRot
        /\ btn # "none" => nBtn < MaxBtn
        /\ LoopStep(btn, encDir, render)
        /\ UNCHANGED <<streak, rendered>>

\* At least one pass of loop() runs in every second.
Tick ==
    /\ nTick < MaxTick
    /\ lastOp = "loop"
    /\ SecondStep
    /\ UNCHANGED <<streak, rendered>>

Next == Pass \/ Tick

Spec == Init /\ [][Next]_vars

\* C4: in every reachable state alarmHour is in 0..23, alarmMinute in 0..59,
\* alarmDuration in 0..30, timeHour in 0..23 and timeMinute in 0..59.
C4_FieldsInRange ==
    /\ alarmHour \in 0..23
    /\ alarmMinute \in 0..59
    /\ alarmDuration \in 0..30
    /\ timeHour \in 0..23
    /\ timeMinute \in 0..59

\* A clockwise rotation that took alarmHour from 23 round to 0.
C4_Witness ==
    /\ lastOp = "loop" /\ lastPass.dir = ENC_CW
    /\ pre.uiState = "setAlarmView" /\ pre.varToEdit = HOUR
    /\ pre.alarmHour = 23 /\ alarmHour = 0

\* "Variables being changed by the user" (lines 66-72).
UserFields ==
    {"timeHour", "timeMinute", "alarmHour", "alarmMinute", "alarmDuration",
     "lightIntensity"}

\* The one variable a rotation may change in state s.
RotationTarget(s) ==
    CASE s.uiState = "mainView" /\ s.lightOn -> {"lightIntensity"}
      [] s.uiState = "setAlarmView" /\ s.varToEdit = HOUR -> {"alarmHour"}
      [] s.uiState = "setAlarmView" /\ s.varToEdit = MINUTE -> {"alarmMinute"}
      [] s.uiState = "setAlarmView" /\ s.varToEdit = DURATION -> {"alarmDuration"}
      [] s.uiState = "setTimeView" /\ s.varToEdit = HOUR -> {"timeHour"}
      [] s.uiState = "setTimeView" /\ s.varToEdit = MINUTE -> {"timeMinute"}
      [] OTHER -> {}

\* C10: a rotation changes at most the one user-edited variable the view
\* selects (lightIntensity in mainView and only with lightOn; the alarm field
\* varToEdit names in setAlarmView; timeHour or timeMinute in setTimeView),
\* and in an edit view it does change that field.  The view is the one the
\* pass is in once its button event, if any, has been handled.
C10_RotationRouting ==
    (lastOp = "loop" /\ lastPass.dir # 0) =>
        LET b == ButtonTick(pre, lastPass.btn)
            changed == {f \in UserFields : St[f] # b[f]}
        IN /\ changed \subseteq RotationTarget(b)
           /\ b.uiState # "mainView" => changed = RotationTarget(b)

\* A rotation in setTimeView with HOUR selected changed timeHour and nothing else.
C10_Witness ==
    /\ lastOp = "loop" /\ lastPass.dir = ENC_CW /\ lastPass.btn = "none"
    /\ pre.uiState = "setTimeView" /\ pre.varToEdit = HOUR
    /\ timeHour # pre.timeHour
    /\ timeMinute = pre.timeMinute /\ alarmHour = pre.alarmHour
    /\ alarmMinute = pre.alarmMinute /\ alarmDuration = pre.alarmDuration
    /\ lightIntensity = pre.lightIntensity

\* C9: a double click that disables the alarm, in a pass without rotation,
\* changes alarmEnabled and none of lightOn, lightIntensity, the alarm and time
\* fields and the view; and in any pass that evaluates the alarm with
\* alarmEnabled false, the alarm logic leaves lightOn and lightIntensity as
\* they were before it.
C9_DisableKeepsLamp ==
    lastOp = "loop" =>
        LET b == BeforeAlarm(pre, lastPass.btn, lastPass.dir)
        IN /\ (lastPass.btn = "doubleClick" /\ lastPass.dir = 0
                 /\ pre.uiState = "mainView" /\ pre.alarmEnabled)
              => /\ ~alarmEnabled
                 /\ lightOn = pre.lightOn
                 /\ lightIntensity = pre.lightIntensity
                 /\ uiState = "mainView"
                 /\ \A f \in UserFields : St[f] = pre[f]
           /\ ~b.alarmEnabled
              => (lightOn = b.lightOn /\ lightIntensity = b.lightIntensity)

\* The alarm disabled inside the wake-up window while the lamp is on.
C9_Witness ==
    /\ lastOp = "loop" /\ lastPass.btn = "doubleClick" /\ lastPass.dir = 0
    /\ pre.uiState = "mainView" /\ pre.alarmEnabled /\ ~alarmEnabled
    /\ isAlarmOn(St)
    /\ pre.lightOn /\ lightOn

\* C2: when the alarm is enabled, alarmDuration > 0 and the clock has just
\* entered the wake-up window while the lamp is off, the next pass of loop(),
\* with no button event, leaves lightOn true.
C2_LampOnAtWindowEntry ==
    (/\ lastOp = "loop" /\ lastPass.entry
     /\ lastPass.btn = "none" /\ lastPass.dir = 0
     /\ pre.alarmEnabled /\ pre.alarmDuration > 0 /\ isAlarmOn(pre)
     /\ ~pre.lightOn)
    => lightOn

\* C6: the idle timeout switches back to mainView only when at least
\* IdleTimeout seconds have passed since the last rotation or button event.
C6_TimeoutOnlyWhenIdle ==
    (lastOp = "loop" /\ lastPass.timedOut) => sinceInput >= IdleTimeout

\* C8: whichever way a pass of loop() leaves setTimeView, the clock then
\* shows the edited timeHour:timeMinute.
C8_LeavingCommits ==
    (lastOp = "loop" /\ pre.uiState = "setTimeView" /\ uiState # "setTimeView")
    => (hour(St) = timeHour /\ minute(St) = timeMinute)

\* What isAlarmOn() reads, and the step time derived from it.
AlarmConfig(s) == <<s.alarmHour, s.alarmMinute, s.alarmDuration, s.secondsPerStep>>

ViewAfterButton(view, btn) ==
    CASE btn = "longPressStop" /\ view = "mainView" -> "setAlarmView"
      [] btn = "longPressStop" /\ view # "mainView" -> "mainView"
      [] btn = "doubleClick" /\ view = "setAlarmView" -> "setTimeView"
      [] btn = "doubleClick" /\ view = "setTimeView" -> "setAlarmView"
      [] OTHER -> view

\* The handlers that belong to a view.
ViewHandlers(view) ==
    CASE view = "mainView" ->
            <<"toggleLightOn", "toggleAlarmEnabled", "switchToSetAlarmView">>
      [] view = "setAlarmView" ->
            <<"cycleSetAlarm", "switchToSetTimeView", "switchToMainView">>
      [] view = "setTimeView" ->
            <<"cycleSetTime", "switchToSetAlarmView", "switchToMainView">>

\* C12: the bound handlers always match uiState; a pass of loop() changes
\* the view only by long press (mainView to setAlarmView, an edit view to
\* mainView), by double click (between setAlarmView and setTimeView) or by
\* the idle timeout (an edit view to mainView); a single click never changes
\* it; in an edit view a single click leaves lightOn and a double click
\* leaves alarmEnabled as it was; the passing of time changes no view.
C12_ViewTransitions ==
    /\ <<clickFunc, doubleClickFunc, longPressStopFunc>> = ViewHandlers(uiState)
    /\ lastOp = "loop" =>
          LET v == ViewAfterButton(pre.uiState, lastPass.btn)
          IN /\ uiState = IF lastPass.timedOut THEN "mainView" ELSE v
             /\ lastPass.timedOut => v # "mainView"
             /\ (lastPass.btn = "click" /\ ~lastPass.timedOut)
                   => uiState = pre.uiState
             /\ (lastPass.btn = "click" /\ pre.uiState # "mainView")
                   => lightOn = pre.lightOn
             /\ (lastPass.btn = "doubleClick" /\ pre.uiState # "mainView")
                   => alarmEnabled = pre.alarmEnabled
    /\ lastOp \in {"tick", "enter"} => uiState = pre.uiState

\* A double click in setTimeView led to setAlarmView with its handlers bound.
C12_Witness ==
    /\ lastOp = "loop" /\ lastPass.btn = "doubleClick"
    /\ pre.uiState = "setTimeView" /\ uiState = "setAlarmView"
    /\ clickFunc = "cycleSetAlarm"

\* C13: in every reachable state varToEdit is HOUR, MINUTE or DURATION, and
\* in setTimeView it is HOUR or MINUTE.
C13_VarToEditValid ==
    /\ varToEdit \in {HOUR, MINUTE, DURATION}
    /\ uiState = "setTimeView" => varToEdit \in {HOUR, MINUTE}

\* C16: a pass of loop() that leaves setTimeView for mainView (long press or
\* idle timeout) in a run without any rotation leaves the clock's hour and
\* minute as they were before the pass, which is where the running clock
\* had them.
C16_VisitKeepsClock ==
    (/\ lastOp = "loop" /\ nRot = 0
     /\ pre.uiState = "setTimeView" /\ uiState = "mainView")
    => (hour(St) = hour(pre) /\ minute(St) = minute(pre))

\* ------------------------------------------------- the window predicate
\* Every alarm configuration the editor can produce, at one clock time; the
\* pass of loop() evaluates isAlarmOn and changes nothing else.
InitWindow ==
    \E h \in 0..MaxHour, m \in 0..MaxMinute, d \in 0..MaxDuration :
        /\ InitWith(WithClock(WithAlarm(Construction, h, m, d), 23, 57, 0), 0)
        /\ rendered = TRUE

EvalPass == LoopStep("none", 0, FALSE) /\ UNCHANGED <<streak, rendered>>

NextWindow == EvalPass

SpecWindow == InitWindow /\ [][NextWindow]_vars

MinutesPerDay == 24 * 60

\* The half-open window of aDuration minutes that ends at aHour:aMinute.
InWindow(h, m, aHour, aMinute, aDuration) ==
    LET gap == ((aHour * 60 + aMinute) - (h * 60 + m)) % MinutesPerDay
    IN gap >= 1 /\ gap <= aDuration

\* C1: for every alarm time and duration in range and every clock time,
\* isAlarmOn() is true exactly when the clock lies in the window of
\* alarmDuration minutes ending at the alarm time (minute-of-day difference
\* mod 1440 in 1..alarmDuration), and what the pass of loop() evaluated is
\* that value; with alarmDuration = 0 it is false at every clock time.
C1_WindowIsModular ==
    lastOp = "loop" =>
        /\ \A h \in 0..23, m \in 0..59 :
              isAlarmOnAt(h, m, alarmHour, alarmMinute, alarmDuration)
                  <=> InWindow(h, m, alarmHour, alarmMinute, alarmDuration)
        /\ lastPass.alarmOn
              <=> InWindow(hour(St), minute(St), alarmHour, alarmMinute, alarmDuration)
        /\ alarmDuration = 0 =>
              \A h \in 0..23, m \in 0..59 :
                  ~isAlarmOnAt(h, m, alarmHour, alarmMinute, alarmDuration)

\* The window of 0:10 with 15 minutes crosses midnight; 23:57 lies in it.
C1_Witness ==
    /\ lastOp = "loop"
    /\ alarmHour = 0 /\ alarmMinute = 10 /\ alarmDuration = 15
    /\ hour(St) = 23 /\ minute(St) = 57
    /\ lastPass.alarmOn
    /\ ~isAlarmOnAt(23, 44, alarmHour, alarmMinute, alarmDuration)
    /\ isAlarmOnAt(0, 5, alarmHour, alarmMinute, alarmDuration)
    /\ ~isAlarmOnAt(0, 10, alarmHour, alarmMinute, alarmDuration)


\* --------------------------------------------- the wrap-around counter
\* An edit view with one field selected, at every value of that field, and
\* passes of loop() that only rotate.  streak counts the ticks applied.
MaxBack == 2

CounterStarts ==
    {[AlarmViewAt(HOUR) EXCEPT !.alarmHour = x] : x \in 0..MaxHour}
    \cup {[AlarmViewAt(MINUTE) EXCEPT !.alarmMinute = x] : x \in 0..MaxMinute}
    \cup {[AlarmViewAt(DURATION) EXCEPT !.alarmDuration = x,
                                        !.secondsPerStep = StepSeconds(x)] :
             x \in 0..MaxDuration}
    \cup {[TimeViewAt(HOUR) EXCEPT !.timeHour = x] : x \in 0..MaxHour}
    \cup {[TimeViewAt(MINUTE) EXCEPT !.timeMinute = x] : x \in 0..MaxMinute}

InitCounter == (\E s \in CounterStarts : InitWith(s, 0)) /\ rendered = TRUE

RotatePass ==
    \E encDir \in Directions :
        /\ encDir = ENC_CW => streak.cw <= SelectedMax(St)
        /\ encDir = ENC_CCW => streak.ccw < MaxBack
        /\ LoopStep("none", encDir, FALSE)
        /\ streak' = [streak EXCEPT
                        !.cw = IF encDir = ENC_CW THEN @ + 1 ELSE @,
                        !.ccw = IF encDir = ENC_CCW THEN @ + 1 ELSE @]
        /\ UNCHANGED rendered

NextCounter == RotatePass

SpecCounter == InitCounter /\ [][NextCounter]_vars

\* C5: handleAlarmTime is a wrap-around counter on 0..maxNumber: after cw
\* clockwise and ccw counter-clockwise ticks, in any order, the field holds
\* (start + cw - ccw) mod (maxNumber + 1).  So maxNumber + 1 clockwise ticks
\* give back the start value, one counter-clockwise tick from 0 gives
\* maxNumber, a clockwise then a counter-clockwise tick is the identity, and
\* a tick with direction 0 leaves the value unchanged.
C5_WrapCounter ==
    LET n == SelectedMax(St) + 1
    IN /\ Selected(St) = (streak.start + streak.cw - streak.ccw) % n
       /\ (streak.cw = n /\ streak.ccw = 0) => Selected(St) = streak.start
       /\ (streak.start = 0 /\ streak.cw = 0 /\ streak.ccw = 1)
             => Selected(St) = SelectedMax(St)
       /\ (streak.cw = 1 /\ streak.ccw = 1) => Selected(St) = streak.start
       /\ (lastOp = "loop" /\ lastPass.dir = 0) => Selected(St) = Selected(pre)

\* The hour of the alarm after 24 clockwise ticks from 23, and the minute of
\* the clock one tick back from 0.
C5_Witness ==
    \/ /\ uiState = "setAlarmView" /\ varToEdit = HOUR
       /\ streak.start = 23 /\ streak.cw = 24 /\ streak.ccw = 0
       /\ alarmHour = 23
    \/ /\ uiState = "setTimeView" /\ varToEdit = MINUTE
       /\ streak.start = 0 /\ streak.cw = 0 /\ streak.ccw = 1
       /\ timeMinute = 59


\* C18: after every pass of loop(), whatever duration edits came before,
\* secondsPerStep is (alarmDuration * 60) div 255, and it is at least 1
\* whenever alarmDuration > 0.
C18_StepTimeConsistent ==
    lastOp = "loop" =>
        /\ secondsPerStep = (alarmDuration * 60) \div 255
        /\ alarmDuration > 0 => secondsPerStep >= 1

\* ------------------------------------------------ a whole wake-up window
\* One-minute windows, the clock two seconds before they open, and a run
\* long enough to reach the alarm time; the encoder is not turned.
MaxTickAlarm == 63
MaxBtnAlarm == 1

AlarmScenes ==
    {<<<<6, 30, 1>>, <<6, 28, 58>>>>,
     <<<<0, 0, 1>>, <<23, 58, 58>>>>}

AlarmStarts ==
    {WithClock(WithAlarm(Construction, c[1][1], c[1][2], c[1][3]),
               c[2][1], c[2][2], c[2][3]) : c \in AlarmScenes}

InitAlarm == (\E s \in AlarmStarts : InitWith(s, 0)) /\ rendered = TRUE

AlarmPass ==
    \E btn \in ButtonEvents, render \in BOOLEAN :
        /\ btn # "none" => nBtn < MaxBtnAlarm
        /\ LoopStep(btn, 0, render)
        /\ UNCHANGED <<streak, rendered>>

AlarmTick ==
    /\ nTick < MaxTickAlarm
    /\ lastOp = "loop"
    /\ SecondStep
    /\ UNCHANGED <<streak, rendered>>

NextAlarm == AlarmPass \/ AlarmTick

SpecAlarm == InitAlarm /\ [][NextAlarm]_vars

\* C3: when the clock has run through a whole non-empty wake-up window with
\* the alarm enabled and no user input since before the window opened, then
\* in the pass of loop() at the alarm time the lamp is on at the completion
\* brightness and alarmIntensity is 0.
C3_RampCompletes ==
    (/\ lastOp = "loop"
     /\ hour(St) = alarmHour /\ minute(St) = alarmMinute
     /\ alarmEnabled /\ alarmDuration > 0
     /\ sinceInput > 60 * alarmDuration + second(St))
    => (lightOn /\ lightIntensity = AlarmFullOn /\ alarmIntensity = 0)

\* C15: alarmIntensity never exceeds the 255 steps, and a pass of loop()
\* advances it by at most one, also when several passes fall into the same
\* second.
C15_StepCounterBounded ==
    /\ alarmIntensity \in 0..AlarmSteps
    /\ lastOp = "loop" => alarmIntensity <= pre.alarmIntensity + 1

\* A pass of loop() inside the wake-up window, seconds after the window
\* opened, that evaluated the alarm and left alarmIntensity as it was.
C15_Witness ==
    /\ lastOp = "loop" /\ lastPass.alarmOn
    /\ isAlarmOn(pre) /\ pre.alarmEnabled /\ pre.time = time
    /\ sinceInput >= 1 /\ nTick >= 3
    /\ alarmIntensity = pre.alarmIntensity

\* --------------------------------------------------- the idle timeout
\* The render tick keeps its cadence: it happens at least once in every
\* second (rendered), and the clock keeps advancing.  A button event is
\* taken only while the run still has room for the idle period after it;
\* the encoder is turned once the idle period has been reached, when the
\* return to mainView is due.
MaxTickLive == 18
MaxBtnLive == 1

\* The alarm view opened at 0:00:50, the time view opened at 23:59:50, the
\* main view after setup().
LiveStarts ==
    {switchToSetAlarmView(WithClock(Construction, 0, 0, 50)),
     switchToSetTimeView(switchToSetAlarmView(WithClock(Construction, 23, 59, 50))),
     Construction}

InitLive == (\E s \in LiveStarts : InitWith(s, 0)) /\ rendered = FALSE

LivePass ==
    \E btn \in ButtonEvents, encDir \in Directions, render \in BOOLEAN :
        /\ encDir # 0 => sinceInput >= IdleTimeout
        /\ btn # "none" => (nBtn < MaxBtnLive /\ nTick + IdleTimeout + 1 <= MaxTickLive)
        /\ LoopStep(btn, encDir, render)
        /\ rendered' = (rendered \/ render)
        /\ UNCHANGED streak

\* A pass of loop() that only renders.
RenderPass ==
    /\ LoopStep("none", 0, TRUE)
    /\ rendered' = TRUE
    /\ UNCHANGED streak

LiveTick ==
    /\ nTick < MaxTickLive
    /\ rendered
    /\ SecondStep
    /\ rendered' = FALSE
    /\ UNCHANGED streak

NextLive == LivePass \/ RenderPass \/ LiveTick

SpecLive ==
    InitLive /\ [][NextLive]_vars /\ WF_vars(RenderPass) /\ WF_vars(LiveTick)

InitDim ==
    /\ InitWith(WithClock(Construction, 6, 20, 0), 0)
    /\ rendered = TRUE

DimPass ==
    \E btn \in {"none", "click"}, encDir \in Directions, render \in BOOLEAN :
        \E n \in {LoopBody(St, btn, encDir, render)} :
            /\ Commit(n)
            /\ UNCHANGED histVars

SpeedStep ==
    \E sp \in {encSpeed - 1, encSpeed + 1} \cap (0..DimCeiling) :
        /\ Commit(WithSpeed(St, sp))
        /\ UNCHANGED histVars

NextDim == DimPass \/ SpeedStep

SpecDim == InitDim /\ [][NextDim]_vars

MaxBtnTriac == 3
MaxRotTriac == 1

InitTriac ==
    /\ InitWith(WithSpeed(Construction, 8), 0)
    /\ rendered = TRUE

TriacPass ==
    \E btn \in {"none", "click"}, encDir \in Directions, render \in BOOLEAN :
        /\ zcAt = "idle"
        /\ encDir # 0 => nRot < MaxRotTriac
        /\ btn # "none" => nBtn < MaxBtnTriac
        /\ LoopStep(btn, encDir, render)
        /\ UNCHANGED <<streak, rendered>>

\* What an interrupt handler leaves of the history.
Interrupt(name, s) ==
    /\ Commit(s)
    /\ lastOp' = name
    /\ pre' = St
    /\ UNCHANGED <<lastPass, sinceInput, sinceButton, rendered, streak,
                   nTick, nRot, nBtn>>

ZeroCrossFire ==
    /\ zcAt = "idle" /\ syncTimer1ToMains
    /\ Interrupt("zeroCrossInt", zeroCrossFire(St))

ZeroCrossEnd ==
    /\ zcAt = "fired" \/ ~syncTimer1ToMains
    /\ Interrupt("zeroCrossInt", zeroCrossEnd(St))

Timer1Int ==
    /\ zcAt = "idle" /\ timer1Running
    /\ Interrupt("turnOnTriac", turnOnTriac(St))

NextTriac == TriacPass \/ ZeroCrossFire \/ ZeroCrossEnd \/ Timer1Int

SpecTriac == InitTriac /\ [][NextTriac]_vars

\* C17: while lightOn is false neither interrupt handler drives AC_LOAD
\* high: zeroCrossInt is not at its pulse, and turnOnTriac leaves the pin as
\* it was.
C17_NoFiringWhileOff ==
    ~lightOn =>
        /\ ~(zcAt = "fired" /\ acLoad = "HIGH")
        /\ lastOp = "turnOnTriac" => acLoad = pre.acLoad

=============================================================================
